---- MODULE Spec2Model ----
(***************************************************************************)
(* Finex: the OCR upload -> verify -> commit workflow of the Upload page   *)
(* (pages/Upload.tsx), its VerifyOCRModal component and the react-query    *)
(* mutations / query cache they drive.                                     *)
(*                                                                         *)
(* JavaScript values are modelled as follows: an object is a record, a     *)
(* missing key is a key absent from the record's DOMAIN, null is the       *)
(* record Null, amounts are integers.                                      *)
(***************************************************************************)
EXTENDS Integers, Sequences, FiniteSets, TLC

\* ------------------------------------------------------------------ bounds
\* files the user may select for one batch
MaxFiles == 2
\* upload requests started during one visit of the page
MaxUploads == 2
\* items the edited draft may hold on the Upload page (+ Add Item is offered
\* up to here)
MaxItems == 1
\* items the draft may hold while its item operations are examined
MaxDraftItems == 3
\* PUT and DELETE requests sent from the Receipts page in one run
MaxRequests == 2
\* receipts held by the receipt store
MaxStoreReceipts == 3

\* ------------------------------------------------------------- JS values
Null == [isNull |-> TRUE]

\* new Date().toISOString().split('T')[0]
Today == "2024-06-01"

FileNames == {"a.png"}

QueryKeys == {"receipts", "receipt-stats", "analytics"}

\* a line item as the extraction service returns it
Milk == [name |-> "Milk", quantity |-> 2, price |-> 40, total |-> 80]

\* raw ocrData objects of the upload response; keys may be missing
OcrFull ==
    [storeName |-> "Cafe X", date |-> "2024-01-15", totalAmount |-> 250,
     taxAmount |-> 12, items |-> <<Milk>>, ocrStatus |-> "success"]
OcrSparse == [totalAmount |-> 250, items |-> <<>>]
OcrErrorEmpty == [ocrStatus |-> "error", ocrMessage |-> "unreadable"]
OcrErrorItems ==
    [storeName |-> "Cafe X", items |-> <<Milk>>, ocrStatus |-> "error",
     ocrMessage |-> "low confidence"]
OcrSamples == {OcrFull, OcrSparse, OcrErrorEmpty, OcrErrorItems}
\* ocrData of the files after the first one of a batch
OcrTailSamples == {OcrFull}

\* values typed into the form while in edit mode
InputEdits == {<<"storeName", "Cafe Y">>}
ItemEdits == {<<"price", 5>>}

VARIABLES
    files,            \* Upload: useState<File[]>
    uploadedCount,    \* Upload: useState(0)
    verifyModalOpen,  \* Upload: useState(false)
    pendingOCRData,   \* Upload: useState(null)
    uploadMutation,   \* react-query state of uploadMutation
    verifyMutation,   \* react-query observer state of verifyMutation
    inflight,         \* POST /receipts/verify requests awaiting a response
    editMode,         \* VerifyOCRModal: useState(false)
    editedData,       \* VerifyOCRModal: useState(data)
    isUploading,      \* receiptStore
    uploadProgress,   \* receiptStore
    invalidated,      \* query keys invalidated and not yet refetched
    persisted,        \* receiptIds of the records stored by POST /receipts/verify
    uploads,          \* upload requests started so far
    lastToast,        \* last toast shown
    discarded,        \* receiptIds of the drafts dropped by handleCancelVerify
    enteredEdit,      \* edit mode was entered since the staged draft was staged
    serverReceipts,   \* the receipts the backend holds for the Receipts page
    receiptsData,     \* Receipts: data of the ['receipts', user.id] query
    selectedReceipt,  \* Receipts: useState<LocalReceipt | null>(null)
    isModalOpen,      \* Receipts: useState(false)
    detailEditMode,   \* ReceiptDetailModal: editMode, useState(false)
    editedReceipt,    \* ReceiptDetailModal: useState(receipt)
    isSaving,         \* ReceiptDetailModal: useState(false)
    isDeleting,       \* ReceiptDetailModal: useState(false)
    showDeleteConfirm,\* ReceiptDetailModal: useState(false)
    requests,         \* PUT / DELETE /receipts/:id requests awaiting a response
    receiptStore,     \* receiptStore: receipts, selectedReceipt, filters
    sent              \* Receipts: PUT and DELETE requests sent so far

vars == <<files, uploadedCount, verifyModalOpen, pendingOCRData, uploadMutation,
          verifyMutation, inflight, editMode, editedData, isUploading,
          uploadProgress, invalidated, persisted, uploads, lastToast,
          discarded, enteredEdit, serverReceipts, receiptsData, selectedReceipt,
          isModalOpen, detailEditMode, editedReceipt, isSaving, isDeleting,
          showDeleteConfirm, requests, receiptStore, sent>>

pageVars == <<files, uploadedCount, verifyModalOpen, pendingOCRData>>
modalVars == <<editMode, editedData>>
storeVars == <<isUploading, uploadProgress>>
historyVars == <<discarded, enteredEdit>>
\* the Receipts page and its ReceiptDetailModal
detailVars == <<selectedReceipt, isModalOpen, detailEditMode, editedReceipt,
                isSaving, isDeleting, showDeleteConfirm>>
receiptsVars == <<serverReceipts, receiptsData, detailVars, requests, receiptStore,
                  sent>>
\* the Upload page, its VerifyOCRModal and its mutations
uploadVars == <<pageVars, modalVars, historyVars, uploadMutation, verifyMutation,
                inflight, persisted, uploads>>

\* ------------------------------------------------------------ the modal's props
\* data={pendingOCRData || {...}}
DataProp(pending) ==
    IF pending = Null
    THEN [storeName |-> "", date |-> "", totalAmount |-> 0, taxAmount |-> 0,
          items |-> <<>>, ocrStatus |-> "pending"]
    ELSE pending

\* isLoading={verifyMutation.isPending}
IsLoading == verifyMutation.status = "pending"

\* ------------------------------------------------------------ the normalizer
HasKey(obj, k) == k \in DOMAIN obj

\* (obj.k as string) || dflt
StrOr(obj, k, dflt) == IF HasKey(obj, k) /\ obj[k] # "" THEN obj[k] ELSE dflt

\* (obj.k as number) || dflt
NumOr(obj, k, dflt) == IF HasKey(obj, k) /\ obj[k] # 0 THEN obj[k] ELSE dflt

\* (obj.k as Array) || dflt
SeqOr(obj, k, dflt) == IF HasKey(obj, k) THEN obj[k] ELSE dflt

\* 'ocrData' in firstFile && firstFile.ocrData
HasOcrData(file) == HasKey(file, "ocrData")

\* the object handed to setPendingOCRData
Normalize(firstFile) ==
    LET ocrData == firstFile.ocrData IN
    [storeName |-> StrOr(ocrData, "storeName", ""),
     date |-> StrOr(ocrData, "date", Today),
     totalAmount |-> NumOr(ocrData, "totalAmount", 0),
     taxAmount |-> NumOr(ocrData, "taxAmount", 0),
     items |-> SeqOr(ocrData, "items", <<>>),
     ocrStatus |-> StrOr(ocrData, "ocrStatus", "success"),
     ocrMessage |-> StrOr(ocrData, "ocrMessage", ""),
     imageUrl |-> StrOr(firstFile, "imageUrl", ""),
     receiptId |-> firstFile.id]

Init ==
    /\ files = <<>>
    /\ uploadedCount = 0
    /\ verifyModalOpen = FALSE
    /\ pendingOCRData = Null
    /\ uploadMutation = [status |-> "idle", variables |-> <<>>, data |-> <<>>]
    /\ verifyMutation = [status |-> "idle"]
    /\ inflight = <<>>
    /\ editMode = FALSE
    /\ editedData = DataProp(Null)
    /\ isUploading = FALSE
    /\ uploadProgress = 0
    /\ invalidated = {}
    /\ persisted = {}
    /\ uploads = 0
    /\ lastToast = "none"
    /\ discarded = {}
    /\ enteredEdit = FALSE
    /\ serverReceipts = <<>>
    /\ receiptsData = <<>>
    /\ selectedReceipt = Null
    /\ isModalOpen = FALSE
    /\ detailEditMode = FALSE
    /\ editedReceipt = Null
    /\ isSaving = FALSE
    /\ isDeleting = FALSE
    /\ showDeleteConfirm = FALSE
    /\ requests = <<>>
    /\ receiptStore = [receipts |-> <<>>, selectedReceipt |-> Null, filters |-> <<>>]
    /\ sent = 0

\* ------------------------------------------------------------ the query cache
\* queryClient.invalidateQueries({ queryKey: [k] }) for every k of keys
InvalidateQueries(keys) == invalidated' = invalidated \cup keys

\* an invalidated query is fetched again
RefetchQuery(k) ==
    /\ k \in invalidated
    /\ invalidated' = invalidated \ {k}
    /\ receiptsData' = IF k = "receipts" THEN serverReceipts ELSE receiptsData
    /\ UNCHANGED <<pageVars, modalVars, storeVars, historyVars, uploadMutation,
                   verifyMutation, inflight, persisted, uploads, lastToast>>
    /\ UNCHANGED <<serverReceipts, detailVars, requests, receiptStore, sent>>

\* ------------------------------------------------------------ the Upload page
\* the modal's backdrop (fixed inset-0) lies over the page while it is open
PageReachable == ~verifyModalOpen

OnDrop(f) ==
    /\ PageReachable
    /\ Len(files) < MaxFiles
    /\ files' = Append(files, f)
    /\ uploadedCount' = 0
    /\ UNCHANGED <<verifyModalOpen, pendingOCRData, modalVars, storeVars,
                   historyVars, uploadMutation, verifyMutation, inflight,
                   invalidated, persisted, uploads, lastToast>>
    /\ UNCHANGED receiptsVars

RemoveAt(seq, index) ==
    [j \in 1..(Len(seq) - 1) |-> IF j < index THEN seq[j] ELSE seq[j + 1]]

RemoveFile(index) ==
    /\ PageReachable
    /\ uploadMutation.status # "pending"
    /\ index \in 1..Len(files)
    /\ files' = RemoveAt(files, index)
    /\ UNCHANGED <<uploadedCount, verifyModalOpen, pendingOCRData, modalVars,
                   storeVars, historyVars, uploadMutation, verifyMutation,
                   inflight, invalidated, persisted, uploads, lastToast>>
    /\ UNCHANGED receiptsVars

ClearAll ==
    /\ PageReachable
    /\ Len(files) > 0
    /\ files' = <<>>
    /\ UNCHANGED <<uploadedCount, verifyModalOpen, pendingOCRData, modalVars,
                   storeVars, historyVars, uploadMutation, verifyMutation,
                   inflight, invalidated, persisted, uploads, lastToast>>
    /\ UNCHANGED receiptsVars

\* the Submit button: handleUpload, then uploadMutation.onMutate
HandleUpload ==
    /\ PageReachable
    /\ Len(files) > 0
    /\ uploadMutation.status # "pending"
    /\ uploads < MaxUploads
    /\ uploads' = uploads + 1
    /\ uploadMutation' = [status |-> "pending", variables |-> files, data |-> <<>>]
    /\ isUploading' = TRUE
    /\ uploadProgress' = 0
    /\ UNCHANGED <<pageVars, modalVars, historyVars, verifyMutation, inflight,
                   invalidated, persisted, lastToast>>
    /\ UNCHANGED receiptsVars

\* ids the server gives the files of upload u
FileId(u, k) == (u - 1) * MaxFiles + k

\* what POST /receipts/upload-batch may answer for n files: data.uploaded || []
UploadedFile(u, k) ==
    LET plain == [id |-> FileId(u, k), imageUrl |-> "/img"] IN
    {plain} \cup
    {[id |-> plain.id, imageUrl |-> plain.imageUrl, ocrData |-> o] :
        o \in IF k = 1 THEN OcrSamples ELSE OcrTailSamples}

RECURSIVE ResponsesOfLen(_, _)
ResponsesOfLen(m, u) ==
    IF m = 0 THEN {<<>>}
    ELSE {Append(r, f) : r \in ResponsesOfLen(m - 1, u), f \in UploadedFile(u, m)}

Responses(n, u) == UNION {ResponsesOfLen(m, u) : m \in 0..n}

\* UploadOnSuccess with setIsUploading(false) inside the branch of a non-empty
\* result
MutUploadOnSuccess(uploadedFiles) ==
    /\ IF Len(uploadedFiles) > 0
       THEN /\ isUploading' = FALSE
            /\ IF HasOcrData(uploadedFiles[1])
               THEN /\ pendingOCRData' = Normalize(uploadedFiles[1])
                    /\ enteredEdit' = FALSE
                    /\ verifyModalOpen' = TRUE
                    /\ uploadedCount' = Len(uploadedFiles)
                    /\ UNCHANGED <<files, invalidated, lastToast>>
               ELSE /\ lastToast' = "upload-success"
                    /\ InvalidateQueries({"receipts", "receipt-stats"})
                    /\ files' = <<>>
                    /\ uploadedCount' = Len(uploadedFiles)
                    /\ UNCHANGED <<pendingOCRData, verifyModalOpen, enteredEdit>>
       ELSE UNCHANGED <<pageVars, invalidated, lastToast, enteredEdit, isUploading>>
    /\ UNCHANGED uploadProgress

\* uploadMutation.onSuccess
UploadOnSuccess(uploadedFiles) ==
    /\ IF Len(uploadedFiles) > 0
       THEN IF HasOcrData(uploadedFiles[1])
            THEN /\ pendingOCRData' = Normalize(uploadedFiles[1])
                 /\ enteredEdit' = FALSE
                 /\ verifyModalOpen' = TRUE
                 /\ uploadedCount' = Len(uploadedFiles)
                 /\ UNCHANGED <<files, invalidated, lastToast>>
            ELSE /\ lastToast' = "upload-success"
                 /\ InvalidateQueries({"receipts", "receipt-stats"})
                 /\ files' = <<>>
                 /\ uploadedCount' = Len(uploadedFiles)
                 /\ UNCHANGED <<pendingOCRData, verifyModalOpen, enteredEdit>>
       ELSE UNCHANGED <<pageVars, invalidated, lastToast, enteredEdit>>
    /\ isUploading' = FALSE
    /\ UNCHANGED uploadProgress

\* UploadOnError that also empties the file list
MutUploadOnError ==
    /\ lastToast' = "upload-failed"
    /\ isUploading' = FALSE
    /\ files' = <<>>
    /\ UNCHANGED <<uploadedCount, verifyModalOpen, pendingOCRData, uploadProgress,
                   invalidated>>

\* uploadMutation.onError
UploadOnError ==
    /\ lastToast' = "upload-failed"
    /\ isUploading' = FALSE
    /\ UNCHANGED <<pageVars, uploadProgress, invalidated>>

\* the effect of VerifyOCRModal: setEditedData(data) when the data prop changes
SyncEditedData ==
    editedData' = IF pendingOCRData' = pendingOCRData THEN editedData
                  ELSE DataProp(pendingOCRData')

UploadSuccess(uploadedFiles) ==
    /\ uploadMutation.status = "pending"
    /\ uploadMutation' = [uploadMutation EXCEPT !.status = "success",
                                                 !.data = uploadedFiles]
    /\ UploadOnSuccess(uploadedFiles)
    /\ SyncEditedData
    /\ UNCHANGED <<editMode, discarded, verifyMutation, inflight, persisted,
                   uploads>>
    /\ UNCHANGED receiptsVars

UploadError ==
    /\ uploadMutation.status = "pending"
    /\ uploadMutation' = [uploadMutation EXCEPT !.status = "error"]
    /\ UploadOnError
    /\ UNCHANGED <<modalVars, historyVars, verifyMutation, inflight, persisted,
                   uploads>>
    /\ UNCHANGED receiptsVars

\* ------------------------------------------------------------ VerifyOCRModal
\* the backdrop, the X button and the footer's Cancel button: onClick={onCancel}
CancelEnabled == verifyModalOpen

\* footer, read-only mode: Edit, disabled={data.ocrStatus === 'error'}
EditEnabled ==
    /\ verifyModalOpen
    /\ ~editMode
    /\ DataProp(pendingOCRData).ocrStatus # "error"

\* "Edit & Add Items" of the empty items message
EditAndAddItemsShown ==
    /\ verifyModalOpen
    /\ Len(editedData.items) = 0
    /\ ~editMode

\* ConfirmEnabled with "Save Changes & Verify" missing disabled={isLoading}
MutConfirmEnabled ==
    /\ verifyModalOpen
    /\ IF ~editMode
       THEN ~(IsLoading \/ DataProp(pendingOCRData).ocrStatus = "error")
       ELSE TRUE

\* ConfirmEnabled that also asks for at least one item
MutConfirmNeedsItems ==
    /\ verifyModalOpen
    /\ Len(editedData.items) > 0
    /\ IF ~editMode
       THEN ~(IsLoading \/ DataProp(pendingOCRData).ocrStatus = "error")
       ELSE ~IsLoading

\* footer: Verify & Save (read-only mode), Save Changes & Verify (edit mode)
ConfirmEnabled ==
    /\ verifyModalOpen
    /\ IF ~editMode
       THEN ~(IsLoading \/ DataProp(pendingOCRData).ocrStatus = "error")
       ELSE ~IsLoading

\* the inputs are readOnly={!editMode}; item buttons are rendered in edit mode
FormEditable == verifyModalOpen /\ editMode

\* obj with key k set to v: {...obj, [k]: v}
SetKey(obj, k, v) ==
    [x \in DOMAIN obj \cup {k} |-> IF x = k THEN v ELSE obj[x]]

\* setEditMode(true) of the Edit button
EnterEdit ==
    /\ EditEnabled
    /\ editMode' = TRUE
    /\ enteredEdit' = TRUE
    /\ UNCHANGED <<pageVars, editedData, storeVars, discarded, uploadMutation,
                   verifyMutation, inflight, invalidated, persisted, uploads,
                   lastToast>>
    /\ UNCHANGED receiptsVars

\* setEditMode(true) of "Edit & Add Items"
EditAndAddItems ==
    /\ EditAndAddItemsShown
    /\ editMode' = TRUE
    /\ enteredEdit' = TRUE
    /\ UNCHANGED <<pageVars, editedData, storeVars, discarded, uploadMutation,
                   verifyMutation, inflight, invalidated, persisted, uploads,
                   lastToast>>
    /\ UNCHANGED receiptsVars

\* Cancel Edit without setEditedData(data)
MutCancelEdit ==
    /\ FormEditable
    /\ editMode' = FALSE
    /\ UNCHANGED <<pageVars, editedData, storeVars, historyVars, uploadMutation,
                   verifyMutation, inflight, invalidated, persisted, uploads,
                   lastToast>>
    /\ UNCHANGED receiptsVars

\* Cancel Edit
CancelEdit ==
    /\ FormEditable
    /\ editMode' = FALSE
    /\ editedData' = DataProp(pendingOCRData)
    /\ UNCHANGED <<pageVars, storeVars, historyVars, uploadMutation,
                   verifyMutation, inflight, invalidated, persisted, uploads,
                   lastToast>>
    /\ UNCHANGED receiptsVars

HandleInputChange(field, value) ==
    /\ FormEditable
    /\ editedData' = SetKey(editedData, field, value)
    /\ UNCHANGED <<pageVars, editMode, storeVars, historyVars, uploadMutation,
                   verifyMutation, inflight, invalidated, persisted, uploads,
                   lastToast>>
    /\ UNCHANGED receiptsVars

\* an array slot never assigned (a hole, read as undefined)
Undefined == [isUndefined |-> TRUE]

\* {...item}: the spread of undefined has no keys
Spread(item) == IF item = Undefined THEN <<>> ELSE item

\* SetItemAt that also recomputes the row's total from quantity and price
MutSetItemAt(items, index, field, value) ==
    IF index \notin 1..Len(items) THEN items
    ELSE LET row == SetKey(Spread(items[index]), field, value) IN
         [items EXCEPT ![index] =
             IF {"quantity", "price"} \subseteq DOMAIN row
             THEN SetKey(row, "total", row.quantity * row.price) ELSE row]

\* newItems = [...items]; newItems[index] = {...newItems[index], [field]: value}
\* (index counts from 1 here: JavaScript's index is index - 1)
SetItemAt(items, index, field, value) ==
    IF index < 1 THEN items
    ELSE [j \in 1..(IF index > Len(items) THEN index ELSE Len(items)) |->
             IF j = index
             THEN SetKey(IF j <= Len(items) THEN Spread(items[j]) ELSE <<>>,
                         field, value)
             ELSE IF j <= Len(items) THEN items[j] ELSE Undefined]

HandleItemChange(index, field, value) ==
    /\ FormEditable
    /\ editedData' = [editedData EXCEPT
                         !.items = SetItemAt(editedData.items, index, field, value)]
    /\ UNCHANGED <<pageVars, editMode, storeVars, historyVars, uploadMutation,
                   verifyMutation, inflight, invalidated, persisted, uploads,
                   lastToast>>
    /\ UNCHANGED receiptsVars

\* FilterOut that drops the item after the one asked for
MutFilterOut(items, index) ==
    IF index + 1 \in 1..Len(items) THEN RemoveAt(items, index + 1) ELSE items

\* items.filter((_, i) => i !== index)
FilterOut(items, index) ==
    IF index \in 1..Len(items) THEN RemoveAt(items, index) ELSE items

HandleDeleteItem(index) ==
    /\ FormEditable
    /\ editedData' = [editedData EXCEPT !.items = FilterOut(editedData.items, index)]
    /\ UNCHANGED <<pageVars, editMode, storeVars, historyVars, uploadMutation,
                   verifyMutation, inflight, invalidated, persisted, uploads,
                   lastToast>>
    /\ UNCHANGED receiptsVars

\* the new item without its category
MutNewItem == [name |-> "", quantity |-> 1, price |-> 0, total |-> 0]

NewItem == [name |-> "", quantity |-> 1, price |-> 0, total |-> 0, category |-> "Other"]

HandleAddItem ==
    /\ FormEditable
    /\ editedData' = [editedData EXCEPT !.items = Append(editedData.items, NewItem)]
    /\ UNCHANGED <<pageVars, editMode, storeVars, historyVars, uploadMutation,
                   verifyMutation, inflight, invalidated, persisted, uploads,
                   lastToast>>
    /\ UNCHANGED receiptsVars

\* handleCancelVerify
OnCancel ==
    /\ CancelEnabled
    /\ verifyModalOpen' = FALSE
    /\ pendingOCRData' = Null
    /\ SyncEditedData
    /\ discarded' = discarded \cup {pendingOCRData.receiptId}
    /\ UNCHANGED <<files, uploadedCount, editMode, storeVars, enteredEdit,
                   uploadMutation, verifyMutation, inflight, invalidated,
                   persisted, uploads, lastToast>>
    /\ UNCHANGED receiptsVars

\* ------------------------------------------------------------ the commit
\* verifyMutation.mutate(verifiedData): the observer follows the new mutation
\* only, and mutationFn posts verifiedData as it is
Mutate(verifiedData) ==
    /\ inflight' = Append([j \in 1..Len(inflight) |->
                              [inflight[j] EXCEPT !.current = FALSE]],
                          [data |-> verifiedData, current |-> TRUE])
    /\ verifyMutation' = [status |-> "pending"]

\* handleConfirm: onConfirm(editedData); setEditMode(false)
HandleConfirm ==
    /\ ConfirmEnabled
    /\ Mutate(editedData)
    /\ editMode' = FALSE
    /\ UNCHANGED <<pageVars, editedData, storeVars, historyVars, uploadMutation,
                   invalidated, persisted, uploads, lastToast>>
    /\ UNCHANGED receiptsVars

\* VerifyOnSuccess without setPendingOCRData(null)
MutVerifyOnSuccess ==
    /\ lastToast' = "verify-success"
    /\ verifyModalOpen' = FALSE
    /\ files' = <<>>
    /\ InvalidateQueries({"receipts", "receipt-stats"})
    /\ uploadedCount' = 1
    /\ UNCHANGED pendingOCRData

\* verifyMutation.onSuccess
VerifyOnSuccess ==
    /\ lastToast' = "verify-success"
    /\ verifyModalOpen' = FALSE
    /\ files' = <<>>
    /\ pendingOCRData' = Null
    /\ InvalidateQueries({"receipts", "receipt-stats"})
    /\ uploadedCount' = 1

\* VerifyOnError that closes the session as onSuccess does
MutVerifyOnError ==
    /\ lastToast' = "verify-failed"
    /\ verifyModalOpen' = FALSE
    /\ pendingOCRData' = Null
    /\ UNCHANGED <<files, uploadedCount, invalidated>>

\* verifyMutation.onError
VerifyOnError ==
    /\ lastToast' = "verify-failed"
    /\ UNCHANGED <<pageVars, invalidated>>

\* the response of request i settles its mutation
Settle(i, status) ==
    /\ inflight' = RemoveAt(inflight, i)
    /\ verifyMutation' = IF inflight[i].current THEN [status |-> status]
                         ELSE verifyMutation

\* POST /receipts/verify stored the record and answered 2xx
VerifySuccess(i) ==
    /\ i \in 1..Len(inflight)
    /\ persisted' = persisted \cup {inflight[i].data.receiptId}
    /\ Settle(i, "success")
    /\ VerifyOnSuccess
    /\ SyncEditedData
    /\ UNCHANGED <<editMode, storeVars, historyVars, uploadMutation, uploads>>
    /\ UNCHANGED receiptsVars

\* POST /receipts/verify failed (network or server)
VerifyError(i) ==
    /\ i \in 1..Len(inflight)
    /\ Settle(i, "error")
    /\ VerifyOnError
    /\ SyncEditedData
    /\ UNCHANGED <<editMode, storeVars, historyVars, uploadMutation, persisted,
                   uploads>>
    /\ UNCHANGED receiptsVars

Next ==
    \/ \E f \in FileNames : OnDrop(f)
    \/ \E i \in 1..MaxFiles : RemoveFile(i)
    \/ ClearAll
    \/ HandleUpload
    \/ \E r \in Responses(Len(uploadMutation.variables), uploads) : UploadSuccess(r)
    \/ UploadError
    \/ EnterEdit
    \/ EditAndAddItems
    \/ CancelEdit
    \/ \E e \in InputEdits : HandleInputChange(e[1], e[2])
    \/ \E i \in DOMAIN editedData.items, e \in ItemEdits :
          HandleItemChange(i, e[1], e[2])
    \/ \E i \in DOMAIN editedData.items : HandleDeleteItem(i)
    \/ Len(editedData.items) < MaxItems /\ HandleAddItem
    \/ HandleConfirm
    \/ OnCancel
    \/ \E i \in DOMAIN inflight : VerifySuccess(i)
    \/ \E i \in DOMAIN inflight : VerifyError(i)
    \/ \E k \in QueryKeys : RefetchQuery(k)

Spec == Init /\ [][Next]_vars

\* ------------------------------------------------------------ upload sessions
\* the draft of upload u is the one of its first file
DraftId(u) == FileId(u, 1)

Staged(id) == pendingOCRData # Null /\ pendingOCRData.receiptId = id

InFlightFor(id) == \E j \in DOMAIN inflight : inflight[j].data.receiptId = id

\* the state of upload session u in the state machine of the spec; "None" is a
\* session not started yet or ended without a draft
Phase(u) ==
    IF DraftId(u) \in persisted THEN "Persisted"
    ELSE IF DraftId(u) \in discarded THEN "Discarded"
    ELSE IF u = uploads /\ uploadMutation.status = "pending" THEN "Uploading"
    ELSE IF Staged(DraftId(u))
         THEN IF InFlightFor(DraftId(u)) THEN "Committing" ELSE "Draft"
    ELSE "None"

SessionTransitions ==
    {<<"None", "Uploading">>, <<"Uploading", "None">>, <<"Uploading", "Draft">>,
     <<"Draft", "Committing">>, <<"Committing", "Persisted">>,
     <<"Committing", "Draft">>, <<"Draft", "Discarded">>}

\* C1: every change of a session's state is one of Uploading -> Draft,
\* Draft -> Committing, Committing -> Persisted, Committing -> Draft and
\* Draft -> Discarded (or the start of the session, or an upload that ends
\* without a draft); in particular nothing leaves Persisted or Discarded.
C1_OnlyListedTransitions ==
    [][\A u \in 1..MaxUploads :
          Phase(u)' # Phase(u) => <<Phase(u), Phase(u)'>> \in SessionTransitions]_vars

\* C2: a draft dropped by cancel is never stored by POST /receipts/verify.
C2_CancelledNeverPersisted == discarded \cap persisted = {}

\* C3: while a commit request is in flight no confirm control is enabled, and a
\* request is put in flight only by a confirm taken while none is in flight:
\* it is the only request then, and carries the edited draft.
C3_OnePostPerConfirm ==
    /\ [](inflight # <<>> => ~ConfirmEnabled)
    /\ [][(inflight' # inflight /\ inflight' # <<>>) =>
             /\ inflight = <<>>
             /\ ~IsLoading
             /\ ConfirmEnabled
             /\ inflight' = <<[data |-> editedData, current |-> TRUE]>>]_vars

C3_Witness ==
    /\ Len(inflight) = 1
    /\ verifyModalOpen
    /\ editMode
    /\ Staged(inflight[1].data.receiptId)

\* C4: the failure of the commit request leaves the staged draft, the edited
\* form, the edit mode and the open modal as they are, and a confirm taken
\* after a failure posts the edited draft as it then is.
C4_FailureKeepsDraft ==
    [][/\ (verifyMutation.status = "pending" /\ verifyMutation'.status = "error") =>
             /\ pendingOCRData' = pendingOCRData
             /\ editedData' = editedData
             /\ verifyModalOpen' = verifyModalOpen
             /\ editMode' = editMode
             /\ inflight' = <<>>
       /\ (verifyMutation.status = "error" /\ verifyMutation'.status = "pending") =>
             /\ inflight'[Len(inflight')].data = editedData
             /\ pendingOCRData' = pendingOCRData]_vars

C4_Witness ==
    /\ verifyMutation.status = "error"
    /\ lastToast = "verify-failed"
    /\ verifyModalOpen
    /\ pendingOCRData # Null
    /\ editedData # pendingOCRData

C6_ResponseTouchesOnlyItsDraft ==
    [][\A j \in DOMAIN inflight :
          (/\ inflight' = RemoveAt(inflight, j)
           /\ pendingOCRData # Null
           /\ inflight[j].data.receiptId # pendingOCRData.receiptId) =>
             /\ pendingOCRData' = pendingOCRData
             /\ editedData' = editedData
             /\ verifyModalOpen' = verifyModalOpen]_vars

\* a draft that was staged and then confirmed or cancelled, or is staged now
Presented(id) == id \in discarded \cup persisted \/ Staged(id)

\* C7: of an answered batch, every file that carries OCR data has had its
\* draft presented, or waits behind an earlier file of the batch whose draft
\* is staged now.
C7_EveryOcrFilePresented ==
    uploadMutation.status = "success" =>
        \A k \in DOMAIN uploadMutation.data :
            HasOcrData(uploadMutation.data[k]) =>
                \/ Presented(uploadMutation.data[k].id)
                \/ \E j \in 1..(k - 1) : Staged(uploadMutation.data[j].id)

\* C8: an error draft shown in read-only mode can be put in edit mode.
C8_ErrorDraftCanEnterEdit ==
    (verifyModalOpen /\ DataProp(pendingOCRData).ocrStatus = "error" /\ ~editMode) =>
        (EditEnabled \/ EditAndAddItemsShown)

\* C9: while the modal shows an error draft for which edit mode was not
\* entered since it was staged, no confirm control is enabled.
C9_ErrorDraftNeedsEditEntry ==
    (verifyModalOpen /\ DataProp(pendingOCRData).ocrStatus = "error" /\ ~enteredEdit) =>
        ~ConfirmEnabled

\* C10: the step that stores a receipt invalidates the receipt list, the stats
\* query and the analytics query.
C10_CommitInvalidatesAllAggregates ==
    [][persisted' # persisted => QueryKeys \subseteq invalidated']_vars

\* ------------------------------------------------------------ the payload
\* fields of the draft that only serve its presentation
PresentationFields == {"ocrStatus", "ocrMessage"}

\* C11: the body of every POST /receipts/verify request carries neither
\* ocrStatus nor ocrMessage.
C11_PayloadWithoutOcrFields ==
    \A j \in DOMAIN inflight : DOMAIN inflight[j].data \cap PresentationFields = {}

\* ------------------------------------------------------------ extraction outputs
\* the top-level fields and the item fields of an extraction output
NormFields == {"storeName", "date", "totalAmount", "taxAmount", "items", "category"}
ItemFields == {"name", "quantity", "price", "total", "category"}

Restrict(obj, keys) == [k \in keys |-> obj[k]]

FullItem ==
    [name |-> "Milk", quantity |-> 2, price |-> 40, total |-> 80,
     category |-> "Groceries"]
Bread == [name |-> "Bread", price |-> 30]

\* items with any subset of their fields missing
RawItems == {Restrict(FullItem, ks) : ks \in SUBSET ItemFields}
RawItemLists ==
    {<<>>} \cup {<<i>> : i \in RawItems}
           \cup {<<i, j>> : i \in {FullItem, Bread}, j \in {FullItem, Bread}}

FullExtraction ==
    [storeName |-> "Cafe X", date |-> "2024-01-15", totalAmount |-> 250,
     taxAmount |-> 12, items |-> <<FullItem, Bread>>, category |-> "Groceries"]

\* the ocrStatus / ocrMessage the extraction service may add to its output
WithStatus(o) ==
    {o, SetKey(o, "ocrStatus", "success"),
     SetKey(SetKey(o, "ocrStatus", "error"), "ocrMessage", "unreadable")}

\* extraction outputs with any subset of the top-level fields missing, and
\* complete ones with every list of items
Extractions ==
    UNION {WithStatus(Restrict(FullExtraction, ks)) : ks \in SUBSET NormFields}
    \cup {[FullExtraction EXCEPT !.items = l] : l \in RawItemLists}

\* answers of POST /receipts/upload-batch for upload u with one uploaded file
NormResponses(u) ==
    LET plain == [id |-> FileId(u, 1), imageUrl |-> "/img"] IN
    {<<>>, <<plain>>} \cup
    {<<[id |-> plain.id, imageUrl |-> plain.imageUrl, ocrData |-> o]>> :
        o \in Extractions}

\* the upload of a batch and the staging of its draft, for every extraction
\* output of Extractions
NormNext ==
    \/ \E f \in FileNames : OnDrop(f)
    \/ HandleUpload
    \/ \E r \in NormResponses(uploads) : UploadSuccess(r)
    \/ UploadError
    \/ OnCancel

NormSpec == Init /\ [][NormNext]_vars

\* ------------------------------------------------------------ the staged draft
\* the draft staged now is the one of the first file of the answered upload
DraftOfLastUpload ==
    /\ uploadMutation.status = "success"
    /\ Len(uploadMutation.data) > 0
    /\ HasOcrData(uploadMutation.data[1])
    /\ Staged(uploadMutation.data[1].id)

\* the extraction output that draft was made from
LastExtraction == uploadMutation.data[1].ocrData

\* the defaults of the draft's fields
NormDefaults ==
    [storeName |-> "", date |-> Today, totalAmount |-> 0, taxAmount |-> 0,
     items |-> <<>>, category |-> "Other"]

\* field f of the draft is the supplied value, or the default when missing
FieldNormalized(f) ==
    /\ HasKey(pendingOCRData, f)
    /\ pendingOCRData[f] = IF HasKey(LastExtraction, f) THEN LastExtraction[f]
                           ELSE NormDefaults[f]

\* C12: every top-level field of the staged draft (storeName, date,
\* totalAmount, taxAmount, items, category) is defined: it holds the value the
\* extraction output supplied, or its default when the output lacks it.
C12_DefaultsForMissingFields ==
    DraftOfLastUpload => \A f \in NormFields : FieldNormalized(f)

\* the defaults of an item's fields
ItemDefaults == [quantity |-> 1, price |-> 0, total |-> 0, category |-> "Other"]

\* field f of draft item i is the supplied value, or the default when missing
ItemFieldNormalized(i, f) ==
    /\ HasKey(pendingOCRData.items[i], f)
    /\ pendingOCRData.items[i][f] =
           IF HasKey(LastExtraction.items[i], f) THEN LastExtraction.items[i][f]
           ELSE ItemDefaults[f]

\* C13: the staged draft has one item per item of the extraction output, in
\* the same order, each with quantity 1, price 0, total 0 and category 'Other'
\* where the output's item lacks the field and the supplied value otherwise.
C13_ItemDefaults ==
    (DraftOfLastUpload /\ HasKey(LastExtraction, "items")) =>
        /\ Len(pendingOCRData.items) = Len(LastExtraction.items)
        /\ \A i \in DOMAIN pendingOCRData.items :
              \A f \in DOMAIN ItemDefaults : ItemFieldNormalized(i, f)

\* the fields the form of VerifyOCRModal reads
FormFields == {"storeName", "date", "totalAmount", "taxAmount", "items", "ocrStatus"}

\* C14: the step that answers an upload with at least one file stages a draft
\* with every field of the form defined and opens the modal; the draft has the
\* ocrStatus the extraction reported, and nothing is announced as uploaded or
\* invalidated past the verification.
C14_EveryResponseStaged ==
    [][(/\ uploadMutation.status = "pending"
        /\ uploadMutation'.status = "success"
        /\ Len(uploadMutation'.data) > 0) =>
          /\ verifyModalOpen'
          /\ pendingOCRData' # Null
          /\ FormFields \subseteq DOMAIN pendingOCRData'
          /\ pendingOCRData'.receiptId = uploadMutation'.data[1].id
          /\ (/\ HasOcrData(uploadMutation'.data[1])
              /\ HasKey(uploadMutation'.data[1].ocrData, "ocrStatus")) =>
                 pendingOCRData'.ocrStatus = uploadMutation'.data[1].ocrData.ocrStatus
          /\ invalidated' = invalidated
          /\ lastToast' = lastToast]_vars

\* ------------------------------------------------------------ typing in the form
\* texts typed into an input, character by character
TypedTexts == {<<>>, <<"1", "2">>, <<"1", "e">>}

Digits == {"0", "1", "2", "3", "4", "5", "6", "7", "8", "9"}

DigitValue(c) ==
    CASE c = "0" -> 0 [] c = "1" -> 1 [] c = "2" -> 2 [] c = "3" -> 3
      [] c = "4" -> 4 [] c = "5" -> 5 [] c = "6" -> 6 [] c = "7" -> 7
      [] c = "8" -> 8 [] c = "9" -> 9

\* the value parseFloat gives for a text it cannot read as a number; no text
\* of digits reads as a negative number
NaN == -1

\* e.target.value of an <input type="number">: the text when it is a number,
\* the empty string otherwise
NumberInputValue(text) ==
    IF text # <<>> /\ \A i \in DOMAIN text : text[i] \in Digits THEN text ELSE <<>>

\* the number read from the digits text[1..n]
RECURSIVE DigitsValue(_, _)
DigitsValue(text, n) ==
    IF n = 0 THEN 0 ELSE DigitsValue(text, n - 1) * 10 + DigitValue(text[n])

\* the length of the longest prefix of digits of text, from position i on
RECURSIVE DigitPrefix(_, _)
DigitPrefix(text, i) ==
    IF i > Len(text) \/ text[i] \notin Digits THEN i - 1 ELSE DigitPrefix(text, i + 1)

\* parseFloat(text): the number its longest numeric prefix reads as, or NaN
ParseFloat(text) ==
    IF DigitPrefix(text, 1) = 0 THEN NaN ELSE DigitsValue(text, DigitPrefix(text, 1))

\* OrElse without the || dflt
MutOrElse(number, dflt) == number

\* number || dflt
OrElse(number, dflt) == IF number = NaN \/ number = 0 THEN dflt ELSE number

\* onChange of the Total and Tax Amount inputs
OnChangeAmount(field, text) ==
    HandleInputChange(field, OrElse(ParseFloat(NumberInputValue(text)), 0))

\* onChange of the Qty and Price inputs of item row index
OnChangeItemNumber(index, field, text) ==
    HandleItemChange(index, field,
                     OrElse(ParseFloat(NumberInputValue(text)),
                            IF field = "quantity" THEN 1 ELSE 0))

\* ------------------------------------------------------------ an editing session
EditExtractions ==
    {[FullExtraction EXCEPT !.items = l] :
        l \in {<<>>, <<FullItem>>, <<FullItem, Bread>>}}

EditResponses(u) ==
    {<<[id |-> FileId(u, 1), imageUrl |-> "/img", ocrData |-> o]>> :
        o \in EditExtractions}

\* the upload that stages a draft and the edit operations of the open modal
EditNext ==
    \/ \E f \in FileNames : OnDrop(f)
    \/ HandleUpload
    \/ \E r \in EditResponses(uploads) : UploadSuccess(r)
    \/ EnterEdit
    \/ EditAndAddItems
    \/ CancelEdit
    \/ \E e \in InputEdits : HandleInputChange(e[1], e[2])
    \/ \E f \in {"totalAmount", "taxAmount"}, t \in TypedTexts : OnChangeAmount(f, t)
    \/ \E i \in DOMAIN editedData.items, t \in TypedTexts :
          OnChangeItemNumber(i, "price", t)
    \/ \E i \in DOMAIN editedData.items : OnChangeItemNumber(i, "quantity", <<>>)
    \/ \E i \in DOMAIN editedData.items : HandleDeleteItem(i)
    \/ Len(editedData.items) < MaxDraftItems /\ HandleAddItem

EditSpec == Init /\ [][EditNext]_vars

\* ------------------------------------------------------------ item operations
\* the items of the form before and after a step
Items == editedData.items
ItemsAfter == editedData'.items

\* C15: each item operation on the staged draft changes the length of items
\* by its own effect and keeps the other items in order: an add makes it one
\* longer with the old items as its prefix, a remove of row i makes it one
\* shorter with the rows before i in place and the rows after i moved down by
\* one, a change of a field of row i leaves the length and every other row
\* as they are. A sequence of operations therefore ends with the initial
\* length plus the adds minus the removes.
C15_ItemOpsLengthAndOrder ==
    [][ItemsAfter # Items =>
          /\ HandleAddItem =>
                /\ Len(ItemsAfter) = Len(Items) + 1
                /\ \A j \in DOMAIN Items : ItemsAfter[j] = Items[j]
          /\ \A i \in DOMAIN Items :
                \/ /\ Len(ItemsAfter) = Len(Items) - 1
                   /\ \A j \in 1..(i - 1) : ItemsAfter[j] = Items[j]
                   /\ \A j \in i..(Len(Items) - 1) : ItemsAfter[j] = Items[j + 1]
                \/ ~HandleDeleteItem(i)
          /\ \A i \in DOMAIN Items :
                \/ /\ Len(ItemsAfter) = Len(Items)
                   /\ \A j \in DOMAIN Items \ {i} : ItemsAfter[j] = Items[j]
                \/ /\ \A t \in TypedTexts : ~OnChangeItemNumber(i, "price", t)
                   /\ ~OnChangeItemNumber(i, "quantity", <<>>)]_vars

\* an item was removed from the head, one changed and one added at the end
C15_Witness ==
    /\ verifyModalOpen
    /\ editMode
    /\ pendingOCRData # Null
    /\ pendingOCRData.items = <<FullItem, Bread>>
    /\ Items = <<SetKey(Bread, "price", 12), NewItem>>

\* ------------------------------------------------------------ the handlers called
\* row indexes handed to handleItemChange and handleDeleteItem: -1 .. one past
\* the last row JavaScript-wise, whatever the rows shown
CallIndexes == 0..MaxDraftItems

\* the item handlers of the open modal called with any index
ItemCallNext ==
    \/ \E f \in FileNames : OnDrop(f)
    \/ HandleUpload
    \/ \E r \in EditResponses(uploads) : UploadSuccess(r)
    \/ EnterEdit
    \/ EditAndAddItems
    \/ CancelEdit
    \/ \E i \in CallIndexes, e \in ItemEdits : HandleItemChange(i, e[1], e[2])
    \/ \E i \in CallIndexes : HandleDeleteItem(i)
    \/ Len(editedData.items) < MaxDraftItems /\ HandleAddItem

ItemCallSpec == Init /\ [][ItemCallNext]_vars

\* C16: handleItemChange called with an index that is not a row of items
\* leaves items as it is: same length, same elements.
C16_OutOfBoundsIsNoOp ==
    [][\A i \in CallIndexes \ DOMAIN Items, e \in ItemEdits :
          HandleItemChange(i, e[1], e[2]) => ItemsAfter = Items]_vars

\* ------------------------------------------------------------ numeric inputs
\* the text reads as a number as a whole
IsNumeric(text) == text # <<>> /\ \A i \in DOMAIN text : text[i] \in Digits

\* C17: typing into Total, Tax Amount or the Price of an item row stores a
\* number, never NaN, which is 0 when the text typed is empty or not numeric,
\* and leaves the confirm control enabled.
C17_InvalidNumberStoredAsZero ==
    [][editedData' # editedData =>
          /\ \A f \in {"totalAmount", "taxAmount"}, t \in TypedTexts :
                \/ /\ editedData'[f] # NaN
                   /\ ~IsNumeric(t) => editedData'[f] = 0
                   /\ ConfirmEnabled'
                \/ ~OnChangeAmount(f, t)
          /\ \A i \in DOMAIN Items, t \in TypedTexts :
                \/ /\ i \in DOMAIN ItemsAfter
                   /\ ItemsAfter[i].price # NaN
                   /\ ~IsNumeric(t) => ItemsAfter[i].price = 0
                   /\ ConfirmEnabled'
                \/ ~OnChangeItemNumber(i, "price", t)]_vars

\* the total and the price of the only item were replaced by invalid text
C17_Witness ==
    /\ verifyModalOpen
    /\ editMode
    /\ pendingOCRData # Null
    /\ pendingOCRData.totalAmount = 250
    /\ editedData.totalAmount = 0
    /\ pendingOCRData.items = <<FullItem>>
    /\ Items = <<SetKey(FullItem, "price", 0)>>
    /\ ConfirmEnabled

\* ------------------------------------------------------------ empty drafts
\* C18: while the modal shows a draft of ocrStatus success with no items and
\* no commit is being sent, a confirm control is enabled, and the request a
\* confirm then sends carries items = [].
C18_EmptyItemsDoNotBlockCommit ==
    /\ []((/\ verifyModalOpen
           /\ pendingOCRData # Null
           /\ pendingOCRData.ocrStatus = "success"
           /\ Items = <<>>
           /\ ~IsLoading) => ConfirmEnabled)
    /\ [][(Items = <<>> /\ HandleConfirm) =>
             inflight'[Len(inflight')].data.items = <<>>]_vars

\* the only item of a draft was removed and the emptied draft confirmed
C18_Witness ==
    /\ pendingOCRData # Null
    /\ pendingOCRData.ocrStatus = "success"
    /\ pendingOCRData.items = <<Milk>>
    /\ Len(inflight) = 1
    /\ inflight[1].data.receiptId = pendingOCRData.receiptId
    /\ inflight[1].data.items = <<>>

\* ------------------------------------------------------------ Cancel Edit
\* C19: Cancel Edit leaves the form in read-only mode holding the draft as the
\* normalizer made it from the upload's answer, every field and the items,
\* whatever was edited before, and sends nothing: no request is put in flight
\* and nothing is stored.
C19_CancelEditRestoresSnapshot ==
    [][CancelEdit =>
          /\ editedData' = Normalize(uploadMutation.data[1])
          /\ pendingOCRData' = pendingOCRData
          /\ ~editMode'
          /\ inflight' = inflight
          /\ persisted' = persisted]_vars

\* edit mode was entered and left again: the form shows the staged draft
C19_Witness ==
    /\ verifyModalOpen
    /\ enteredEdit
    /\ ~editMode
    /\ pendingOCRData # Null
    /\ pendingOCRData.items = <<FullItem, Bread>>
    /\ editedData = pendingOCRData

\* ------------------------------------------------------------ + Add Item
\* C20: + Add Item makes items one longer: the old items stay where they are,
\* the new last item has name '', quantity 1, price 0, total 0 and category
\* 'Other', and every other field of the draft is as before.
C20_AddItemAppendsDefaults ==
    [][HandleAddItem =>
          /\ Len(ItemsAfter) = Len(Items) + 1
          /\ \A j \in DOMAIN Items : ItemsAfter[j] = Items[j]
          /\ DOMAIN ItemsAfter[Len(ItemsAfter)] = ItemFields
          /\ ItemsAfter[Len(ItemsAfter)].name = ""
          /\ ItemsAfter[Len(ItemsAfter)].quantity = 1
          /\ ItemsAfter[Len(ItemsAfter)].price = 0
          /\ ItemsAfter[Len(ItemsAfter)].total = 0
          /\ ItemsAfter[Len(ItemsAfter)].category = "Other"
          /\ DOMAIN editedData' = DOMAIN editedData
          /\ \A k \in DOMAIN editedData \ {"items"} : editedData'[k] = editedData[k]
          /\ pendingOCRData' = pendingOCRData]_vars

\* an item was added after the two of an edited draft
C20_Witness ==
    /\ verifyModalOpen
    /\ editMode
    /\ editedData.storeName = "Cafe Y"
    /\ Len(Items) = 3
    /\ Items[1] = FullItem
    /\ Items[2] = Bread
    /\ Items[3].name = ""
    /\ Items[3].category = "Other"

\* ------------------------------------------------------------ no recalculation
\* the total of a row, when it has one
SameTotal(before, after) ==
    /\ HasKey(after, "total") = HasKey(before, "total")
    /\ HasKey(before, "total") => after.total = before.total

\* C21: typing a quantity or a price into a row leaves that row's total and
\* the draft's totalAmount as they are, adding or removing a row leaves
\* totalAmount as it is, and the confirm control stays enabled afterwards
\* whatever the totals add up to.
C21_TotalsNotRecalculated ==
    [][ItemsAfter # Items =>
          /\ \A i \in DOMAIN Items :
                \/ /\ i \in DOMAIN ItemsAfter
                   /\ SameTotal(Items[i], ItemsAfter[i])
                   /\ editedData'.totalAmount = editedData.totalAmount
                   /\ ConfirmEnabled'
                \/ /\ \A t \in TypedTexts : ~OnChangeItemNumber(i, "price", t)
                   /\ ~OnChangeItemNumber(i, "quantity", <<>>)
          /\ \/ /\ editedData'.totalAmount = editedData.totalAmount
                /\ ConfirmEnabled'
             \/ /\ ~HandleAddItem
                /\ \A i \in DOMAIN Items : ~HandleDeleteItem(i)]_vars

\* a row reads 1 x 12 with total 80, in a draft whose totalAmount is 250
C21_Witness ==
    /\ verifyModalOpen
    /\ editMode
    /\ editedData.totalAmount = 250
    /\ Len(Items) = 1
    /\ Items[1] = [FullItem EXCEPT !.quantity = 1, !.price = 12]
    /\ ConfirmEnabled

\* ------------------------------------------------------------ the Receipts page
\* receipts the backend holds when the page is opened
Receipt1 ==
    [id |-> 1, storeName |-> "Cafe X", date |-> "2024-01-15", totalAmount |-> 250,
     taxAmount |-> 12, category |-> "Groceries", items |-> <<FullItem>>,
     tags |-> <<>>, notes |-> ""]
Receipt2 ==
    [id |-> 2, storeName |-> "Fuel Z", date |-> "2024-02-01", totalAmount |-> 900,
     taxAmount |-> 0, category |-> "Other", items |-> <<>>, tags |-> <<>>,
     notes |-> ""]
SampleReceipts == <<Receipt1, Receipt2>>

\* the page as opened: the receipts query has loaded the backend's receipts
ReceiptsInit ==
    /\ files = <<>>
    /\ uploadedCount = 0
    /\ verifyModalOpen = FALSE
    /\ pendingOCRData = Null
    /\ uploadMutation = [status |-> "idle", variables |-> <<>>, data |-> <<>>]
    /\ verifyMutation = [status |-> "idle"]
    /\ inflight = <<>>
    /\ editMode = FALSE
    /\ editedData = DataProp(Null)
    /\ isUploading = FALSE
    /\ uploadProgress = 0
    /\ invalidated = {}
    /\ persisted = {}
    /\ uploads = 0
    /\ lastToast = "none"
    /\ discarded = {}
    /\ enteredEdit = FALSE
    /\ serverReceipts = SampleReceipts
    /\ receiptsData = SampleReceipts
    /\ selectedReceipt = Null
    /\ isModalOpen = FALSE
    /\ detailEditMode = FALSE
    /\ editedReceipt = Null
    /\ isSaving = FALSE
    /\ isDeleting = FALSE
    /\ showDeleteConfirm = FALSE
    /\ requests = <<>>
    /\ receiptStore = [receipts |-> <<>>, selectedReceipt |-> Null, filters |-> <<>>]
    /\ sent = 0

\* if (!isOpen || !receipt) return null
DetailShown == isModalOpen /\ selectedReceipt # Null

\* the delete confirmation (fixed inset-0 z-[60]) lies over the modal
DetailReachable == DetailShown /\ ~showDeleteConfirm

\* useEffect(() => { setEditedReceipt(receipt); setEditMode(false) }, [receipt]),
\* for a step that sets edit mode to mode when the effect does not run
ReceiptEffect(mode) ==
    IF selectedReceipt' # selectedReceipt
    THEN editedReceipt' = selectedReceipt' /\ detailEditMode' = FALSE
    ELSE editedReceipt' = editedReceipt /\ detailEditMode' = mode

\* every step of the Receipts page leaves the Upload page and the store alone
ReceiptsFrame == UNCHANGED <<uploadVars, storeVars, receiptStore>>

\* handleReceiptClick: the list object is a new receipt prop, the effect runs
HandleReceiptClick(k) ==
    /\ ~isModalOpen
    /\ k \in DOMAIN receiptsData
    /\ selectedReceipt' = receiptsData[k]
    /\ isModalOpen' = TRUE
    /\ editedReceipt' = receiptsData[k]
    /\ detailEditMode' = FALSE
    /\ UNCHANGED <<serverReceipts, receiptsData, isSaving, isDeleting,
                   showDeleteConfirm, requests, invalidated, lastToast>>
    /\ UNCHANGED sent
    /\ ReceiptsFrame

\* onClose of the page: setIsModalOpen(false); setSelectedReceipt(null)
OnClose ==
    /\ isModalOpen' = FALSE
    /\ selectedReceipt' = Null

\* the close button of ReceiptDetailModal (the full-screen z-50 container lies
\* over the backdrop)
CloseDetail ==
    /\ DetailReachable
    /\ OnClose
    /\ ReceiptEffect(detailEditMode)
    /\ UNCHANGED <<serverReceipts, receiptsData, isSaving, isDeleting,
                   showDeleteConfirm, requests, invalidated, lastToast>>
    /\ UNCHANGED sent
    /\ ReceiptsFrame

\* Edit: setEditMode(true)
DetailEnterEdit ==
    /\ DetailReachable
    /\ ~detailEditMode
    /\ detailEditMode' = TRUE
    /\ UNCHANGED <<serverReceipts, receiptsData, selectedReceipt, isModalOpen,
                   editedReceipt, isSaving, isDeleting, showDeleteConfirm,
                   requests, invalidated, lastToast>>
    /\ UNCHANGED sent
    /\ ReceiptsFrame

\* Cancel of the edit-mode footer: onClick={() => setEditMode(false)},
\* disabled={isSaving}
DetailCancel ==
    /\ DetailReachable
    /\ detailEditMode
    /\ ~isSaving
    /\ detailEditMode' = FALSE
    /\ UNCHANGED <<serverReceipts, receiptsData, selectedReceipt, isModalOpen,
                   editedReceipt, isSaving, isDeleting, showDeleteConfirm,
                   requests, invalidated, lastToast>>
    /\ UNCHANGED sent
    /\ ReceiptsFrame

\* what a detail edit leaves alone
DetailEditFrame ==
    /\ UNCHANGED <<serverReceipts, receiptsData, selectedReceipt, isModalOpen,
                   detailEditMode, isSaving, isDeleting, showDeleteConfirm,
                   requests, invalidated, lastToast>>
    /\ UNCHANGED sent
    /\ ReceiptsFrame

\* handleInputChange of ReceiptDetailModal:
\* setEditedReceipt(prev => { if (!prev) return prev; return {...prev, [field]: value} })
DetailInputChange(field, value) ==
    /\ DetailReachable
    /\ detailEditMode
    /\ editedReceipt' = IF editedReceipt = Null THEN editedReceipt
                        ELSE SetKey(editedReceipt, field, value)
    /\ DetailEditFrame

\* the amount inputs: onChange={e => handleInputChange(field, parseFloat(e.target.value))}
DetailOnChangeAmount(field, text) ==
    DetailInputChange(field, ParseFloat(NumberInputValue(text)))

\* handleItemChange of ReceiptDetailModal: newItems = [...(editedReceipt?.items || [])];
\* newItems[index] = {...newItems[index], [field]: value}
DetailItemChange(index, field, value) ==
    /\ DetailReachable
    /\ detailEditMode
    /\ editedReceipt' =
          IF editedReceipt = Null THEN editedReceipt
          ELSE [editedReceipt EXCEPT
                   !.items = SetItemAt(editedReceipt.items, index, field, value)]
    /\ DetailEditFrame

\* the item number inputs: handleItemChange(index, field, parseFloat(e.target.value))
DetailOnChangeItemNumber(index, field, text) ==
    DetailItemChange(index, field, ParseFloat(NumberInputValue(text)))

\* handleDeleteItem of ReceiptDetailModal: items.filter((_, i) => i !== index)
DetailDeleteItem(index) ==
    /\ DetailReachable
    /\ detailEditMode
    /\ editedReceipt' =
          IF editedReceipt = Null THEN editedReceipt
          ELSE [editedReceipt EXCEPT !.items = FilterOut(editedReceipt.items, index)]
    /\ DetailEditFrame

\* the fields the update mutation sends (mutationFn of updateReceiptMutation)
UpdateFields ==
    {"storeName", "date", "totalAmount", "taxAmount", "category", "items", "tags",
     "notes"}

\* const updates = { storeName: updatedReceipt.storeName, ... }
UpdatesOf(updatedReceipt) == Restrict(updatedReceipt, UpdateFields)

\* api.put(`/receipts/${id}`, updates)
PutRequest(updatedReceipt) ==
    [kind |-> "update", id |-> updatedReceipt.id, updates |-> UpdatesOf(updatedReceipt),
     receipt |-> updatedReceipt]

\* api.delete(`/receipts/${id}`)
DeleteRequest(id) == [kind |-> "delete", id |-> id]

\* handleSave up to its await: if (!onSave || !editedReceipt) return;
\* setIsSaving(true); await onSave(editedReceipt), which is
\* updateReceiptMutation.mutateAsync(updatedReceipt)
HandleSave ==
    /\ DetailReachable
    /\ detailEditMode
    /\ ~isSaving
    /\ sent < MaxRequests
    /\ IF editedReceipt = Null
       THEN UNCHANGED <<isSaving, requests, sent>>
       ELSE /\ isSaving' = TRUE
            /\ requests' = Append(requests, PutRequest(editedReceipt))
            /\ sent' = sent + 1
    /\ UNCHANGED <<serverReceipts, receiptsData, selectedReceipt, isModalOpen,
                   detailEditMode, editedReceipt, isDeleting, showDeleteConfirm,
                   invalidated, lastToast>>
    /\ ReceiptsFrame

\* the backend applies an update to the receipts with that id
ApplyUpdate(receipts, id, updates) ==
    [k \in DOMAIN receipts |->
        IF receipts[k].id = id
        THEN [f \in DOMAIN receipts[k] \cup DOMAIN updates |->
                 IF f \in DOMAIN updates THEN updates[f] ELSE receipts[k][f]]
        ELSE receipts[k]]

\* the backend deletes the receipts with that id
ApplyDelete(receipts, id) == SelectSeq(receipts, LAMBDA r : r.id # id)

HasReceipt(receipts, id) == \E k \in DOMAIN receipts : receipts[k].id = id

\* onSuccess of updateReceiptMutation: invalidateQueries(['receipts']);
\* toast.success; setIsModalOpen(false)
UpdateOnSuccess ==
    /\ InvalidateQueries({"receipts"})
    /\ lastToast' = "Receipt updated successfully"
    /\ isModalOpen' = FALSE

\* UpdateOnError that also closes the modal
MutUpdateOnError ==
    /\ lastToast' = "Failed to update receipt"
    /\ isModalOpen' = FALSE
    /\ UNCHANGED invalidated

\* onError of updateReceiptMutation: toast.error(error.message || ...)
UpdateOnError ==
    /\ lastToast' = "Failed to update receipt"
    /\ UNCHANGED <<invalidated, isModalOpen>>

\* the PUT succeeds: onSuccess, then handleSaveReceipt goes on with
\* setSelectedReceipt(updatedReceipt), then handleSave with setEditMode(false)
\* and finally setIsSaving(false)
UpdateSuccess(i) ==
    /\ i \in DOMAIN requests
    /\ requests[i].kind = "update"
    /\ HasReceipt(serverReceipts, requests[i].id)
    /\ serverReceipts' = ApplyUpdate(serverReceipts, requests[i].id, requests[i].updates)
    /\ requests' = RemoveAt(requests, i)
    /\ UpdateOnSuccess
    /\ selectedReceipt' = requests[i].receipt
    /\ ReceiptEffect(FALSE)
    /\ isSaving' = FALSE
    /\ UNCHANGED <<receiptsData, isDeleting, showDeleteConfirm>>
    /\ UNCHANGED sent
    /\ ReceiptsFrame

\* the PUT fails: onError, mutateAsync rejects, handleSave catches (console.error)
\* and finally setIsSaving(false); mutations are not retried
UpdateError(i) ==
    /\ i \in DOMAIN requests
    /\ requests[i].kind = "update"
    /\ requests' = RemoveAt(requests, i)
    /\ UpdateOnError
    /\ isSaving' = FALSE
    /\ UNCHANGED <<serverReceipts, receiptsData, selectedReceipt, detailEditMode,
                   editedReceipt, isDeleting, showDeleteConfirm>>
    /\ UNCHANGED sent
    /\ ReceiptsFrame

\* handleDeleteClick: setShowDeleteConfirm(true); the button is disabled={isDeleting}
HandleDeleteClick ==
    /\ DetailReachable
    /\ ~detailEditMode
    /\ ~isDeleting
    /\ showDeleteConfirm' = TRUE
    /\ UNCHANGED <<serverReceipts, receiptsData, selectedReceipt, isModalOpen,
                   detailEditMode, editedReceipt, isSaving, isDeleting, requests,
                   invalidated, lastToast>>
    /\ UNCHANGED sent
    /\ ReceiptsFrame

\* Cancel of the delete confirmation: setShowDeleteConfirm(false),
\* disabled={isDeleting}
CancelDeleteConfirm ==
    /\ DetailShown
    /\ showDeleteConfirm
    /\ ~isDeleting
    /\ showDeleteConfirm' = FALSE
    /\ UNCHANGED <<serverReceipts, receiptsData, selectedReceipt, isModalOpen,
                   detailEditMode, editedReceipt, isSaving, isDeleting, requests,
                   invalidated, lastToast>>
    /\ UNCHANGED sent
    /\ ReceiptsFrame

\* handleConfirmDelete up to its await: setIsDeleting(true);
\* await onDelete(receipt.id), which is deleteReceiptMutation.mutateAsync(receiptId)
HandleConfirmDelete ==
    /\ DetailShown
    /\ showDeleteConfirm
    /\ ~isDeleting
    /\ sent < MaxRequests
    /\ isDeleting' = TRUE
    /\ requests' = Append(requests, DeleteRequest(selectedReceipt.id))
    /\ UNCHANGED <<serverReceipts, receiptsData, selectedReceipt, isModalOpen,
                   detailEditMode, editedReceipt, isSaving, showDeleteConfirm,
                   invalidated, lastToast>>
    /\ sent' = sent + 1
    /\ ReceiptsFrame

\* onSuccess of deleteReceiptMutation: invalidateQueries(['receipts']);
\* toast.success; setIsModalOpen(false)
DeleteOnSuccess ==
    /\ InvalidateQueries({"receipts"})
    /\ lastToast' = "Receipt deleted successfully"
    /\ isModalOpen' = FALSE

\* onError of deleteReceiptMutation: toast.error(error.message || ...)
DeleteOnError ==
    /\ lastToast' = "Failed to delete receipt"
    /\ UNCHANGED <<invalidated, isModalOpen>>

\* the DELETE succeeds: onSuccess, then handleConfirmDelete goes on with
\* setShowDeleteConfirm(false); onClose(); and finally setIsDeleting(false)
DeleteSuccess(i) ==
    /\ i \in DOMAIN requests
    /\ requests[i].kind = "delete"
    /\ HasReceipt(serverReceipts, requests[i].id)
    /\ serverReceipts' = ApplyDelete(serverReceipts, requests[i].id)
    /\ requests' = RemoveAt(requests, i)
    /\ DeleteOnSuccess
    /\ showDeleteConfirm' = FALSE
    /\ OnClose
    /\ ReceiptEffect(detailEditMode)
    /\ isDeleting' = FALSE
    /\ UNCHANGED <<receiptsData, isSaving>>
    /\ UNCHANGED sent
    /\ ReceiptsFrame

\* the DELETE fails: onError, mutateAsync rejects, handleConfirmDelete catches
\* (console.error) and finally setIsDeleting(false); mutations are not retried
DeleteError(i) ==
    /\ i \in DOMAIN requests
    /\ requests[i].kind = "delete"
    /\ requests' = RemoveAt(requests, i)
    /\ DeleteOnError
    /\ isDeleting' = FALSE
    /\ UNCHANGED <<serverReceipts, receiptsData, selectedReceipt, detailEditMode,
                   editedReceipt, isSaving, showDeleteConfirm>>
    /\ UNCHANGED sent
    /\ ReceiptsFrame

\* the item rows the modal renders in edit mode: displayReceipt.items.map(...)
DetailRows == IF editedReceipt = Null THEN {} ELSE DOMAIN editedReceipt.items

ReceiptsNext ==
    \/ \E k \in DOMAIN receiptsData : HandleReceiptClick(k)
    \/ CloseDetail
    \/ DetailEnterEdit
    \/ DetailCancel
    \/ DetailInputChange("storeName", "Cafe Y")
    \/ DetailOnChangeAmount("totalAmount", <<>>)
    \/ \E i \in DetailRows : DetailOnChangeItemNumber(i, "quantity", <<>>)
    \/ \E i \in DetailRows : DetailDeleteItem(i)
    \/ HandleSave
    \/ \E i \in DOMAIN requests : UpdateSuccess(i)
    \/ \E i \in DOMAIN requests : UpdateError(i)
    \/ HandleDeleteClick
    \/ CancelDeleteConfirm
    \/ HandleConfirmDelete
    \/ \E i \in DOMAIN requests : DeleteSuccess(i)
    \/ \E i \in DOMAIN requests : DeleteError(i)
    \/ RefetchQuery("receipts")

ReceiptsSpec == ReceiptsInit /\ [][ReceiptsNext]_vars

\* C22: an update or a delete of a persisted receipt is sent once per user
\* action and never sent again by itself: a request is added only by the step
\* that raises the saving or the deleting flag, one at a time, and the step that
\* takes a request away adds none. The step that ends a save either closes the
\* modal with the success message, or shows the error message and leaves the
\* modal as open as it was, in the edit mode it had and with the edits it had;
\* the step that ends a delete either closes the modal with the success
\* message, or shows the error message and leaves the modal and the delete
\* confirmation as they were. Both leave their flag false.
C22_SingleAttemptAndFailureKeepsModal ==
    [][/\ Len(requests') <= Len(requests) + 1
       /\ Len(requests') = Len(requests) + 1 =>
             /\ sent' = sent + 1
             /\ \A j \in DOMAIN requests : requests'[j] = requests[j]
             /\ \/ ~isSaving /\ isSaving' /\ requests'[Len(requests')].kind = "update"
                \/ ~isDeleting /\ isDeleting' /\ requests'[Len(requests')].kind = "delete"
       /\ Len(requests') < Len(requests) =>
             /\ sent' = sent
             /\ \E i \in DOMAIN requests : requests' = RemoveAt(requests, i)
       /\ isSaving /\ ~isSaving' =>
             /\ Len(requests') = Len(requests) - 1
             /\ \/ /\ lastToast' = "Receipt updated successfully"
                   /\ ~isModalOpen'
                \/ /\ lastToast' = "Failed to update receipt"
                   /\ isModalOpen' = isModalOpen
                   /\ detailEditMode' = detailEditMode
                   /\ editedReceipt' = editedReceipt
                   /\ selectedReceipt' = selectedReceipt
       /\ isDeleting /\ ~isDeleting' =>
             /\ Len(requests') = Len(requests) - 1
             /\ \/ /\ lastToast' = "Receipt deleted successfully"
                   /\ ~isModalOpen'
                \/ /\ lastToast' = "Failed to delete receipt"
                   /\ isModalOpen' = isModalOpen
                   /\ showDeleteConfirm' = showDeleteConfirm
                   /\ selectedReceipt' = selectedReceipt]_vars

\* a save has failed: the modal is open in edit mode with the user's edit
C22_Witness ==
    /\ lastToast = "Failed to update receipt"
    /\ DetailShown /\ detailEditMode /\ ~isSaving
    /\ editedReceipt # selectedReceipt
    /\ editedReceipt.storeName = "Cafe Y"
    /\ requests = <<>> /\ sent = 1

\* C23: the step in which an update or a delete of a persisted receipt
\* succeeds invalidates the receipt list, the stats query and the analytics
\* query.
C23_UpdateDeleteInvalidateAggregates ==
    [][(/\ Len(requests') < Len(requests)
        /\ lastToast' \in {"Receipt updated successfully",
                           "Receipt deleted successfully"})
          => QueryKeys \subseteq invalidated']_vars

\* C27: Cancel of the detail modal's edit mode discards the edits: after the
\* step that leaves edit mode without a save, the edits held by the modal are
\* the receipt it shows (so that entering edit mode again shows the saved
\* values and a later Save sends them).
C27_CancelDiscardsEdits ==
    [][(detailEditMode /\ ~detailEditMode' /\ DetailShown' /\ ~isSaving)
          => editedReceipt' = selectedReceipt']_vars

\* Number.isNaN(v) is false
IsNumber(v) == v # NaN

\* C28: the numeric fields the detail modal holds (totalAmount, taxAmount,
\* every item's quantity, price and total) are numbers, never NaN, and so are
\* the ones of every update request in flight.
C28_DetailNumbersNeverNaN ==
    /\ editedReceipt # Null =>
          /\ IsNumber(editedReceipt.totalAmount)
          /\ IsNumber(editedReceipt.taxAmount)
          /\ \A i \in DOMAIN editedReceipt.items :
                \A f \in {"quantity", "price", "total"} :
                   IsNumber(editedReceipt.items[i][f])
    /\ \A j \in DOMAIN requests :
          requests[j].kind = "update" =>
             /\ IsNumber(requests[j].updates.totalAmount)
             /\ \A i \in DOMAIN requests[j].updates.items :
                   IsNumber(requests[j].updates.items[i].quantity)

\* C24: the step in which the upload request fails stages no draft, leaves the
\* modal closed, shows the error message, invalidates no query and leaves the
\* file list as it was.
C24_UploadFailureIsTerminal ==
    [][(uploadMutation.status = "pending" /\ uploadMutation'.status = "error") =>
          /\ pendingOCRData' = pendingOCRData
          /\ editedData' = editedData
          /\ ~verifyModalOpen'
          /\ lastToast' = "upload-failed"
          /\ invalidated' = invalidated
          /\ files' = files]_vars

\* an upload has failed: the files are still listed and nothing is staged
C24_Witness ==
    /\ uploadMutation.status = "error"
    /\ lastToast = "upload-failed"
    /\ Len(files) > 0
    /\ pendingOCRData = Null /\ ~verifyModalOpen

\* C25: the step that stages a draft opens the modal in read-only mode with
\* the new draft as the edits.
C25_StagedDraftOpensReadOnly ==
    [][(pendingOCRData' # pendingOCRData /\ pendingOCRData' # Null) =>
          /\ verifyModalOpen'
          /\ ~editMode'
          /\ editedData' = DataProp(pendingOCRData')]_vars

\* C29: isUploading is true exactly while the upload request is in flight,
\* and the progress is 0 whenever it is true.
C29_UploadingWhileInFlight ==
    /\ isUploading <=> uploadMutation.status = "pending"
    /\ isUploading => uploadProgress = 0

\* an upload has been answered with an empty result and the flag is down
C29_Witness ==
    /\ uploadMutation.status = "success"
    /\ uploadMutation.data = <<>>
    /\ ~isUploading

\* ------------------------------------------------------------ batched item edits
\* the item operations of VerifyOCRModal as calls
AddItemOp == [op |-> "addItem"]
RemoveItemOp(index) == [op |-> "removeItem", index |-> index]
SetItemFieldOp(index, field, value) ==
    [op |-> "setItemField", index |-> index, field |-> field, value |-> value]

\* the updater a handler passes to setEditedData, applied to the pending state
\* prev: handleAddItem reads prev.items; handleItemChange and handleDeleteItem
\* have computed newItems from the editedData of the render they were created in
Updater(call, rendered, prev) ==
    CASE call.op = "addItem" ->
            [prev EXCEPT !.items = Append(prev.items, NewItem)]
      [] call.op = "removeItem" ->
            [prev EXCEPT !.items = FilterOut(rendered.items, call.index)]
      [] call.op = "setItemField" ->
            [prev EXCEPT !.items = SetItemAt(rendered.items, call.index, call.field,
                                             call.value)]

\* two handlers of the same render are called before the modal renders again:
\* React runs the two queued updaters in order
HandleBatch(first, second) ==
    /\ FormEditable
    /\ editedData' = Updater(second, editedData, Updater(first, editedData, editedData))
    /\ UNCHANGED <<pageVars, editMode, storeVars, historyVars, uploadMutation,
                   verifyMutation, inflight, invalidated, persisted, uploads,
                   lastToast>>
    /\ UNCHANGED receiptsVars

\* the calls the rows of the rendered form can make
BatchCalls ==
    {AddItemOp}
    \cup {RemoveItemOp(i) : i \in DOMAIN editedData.items}
    \cup {SetItemFieldOp(i, "price", 5) : i \in DOMAIN editedData.items}

BatchNext ==
    \/ \E f \in FileNames : OnDrop(f)
    \/ HandleUpload
    \/ \E r \in EditResponses(uploads) : UploadSuccess(r)
    \/ EnterEdit
    \/ EditAndAddItems
    \/ \E first \in BatchCalls, second \in BatchCalls :
          /\ Len(editedData.items) < MaxDraftItems
          /\ HandleBatch(first, second)

BatchSpec == Init /\ [][BatchNext]_vars

\* the number of calls of kind op among two calls
CountOp(first, second, op) ==
    (IF first.op = op THEN 1 ELSE 0) + (IF second.op = op THEN 1 ELSE 0)

\* C26: two item operations handled against the same rendered form are both
\* reflected in items: every addItem adds a row and every removeItem of a
\* different row removes one, and a setItemField on a row that is not removed
\* leaves its value in that row.
C26_BatchedEditsBothApplied ==
    [][\A first \in BatchCalls, second \in BatchCalls :
          (/\ HandleBatch(first, second)
           /\ ~(first.op = "removeItem" /\ first = second)) =>
             /\ Len(ItemsAfter) = Len(Items) + CountOp(first, second, "addItem")
                                            - CountOp(first, second, "removeItem")
             /\ \A c \in {first, second} :
                   (c.op = "setItemField" /\ CountOp(first, second, "removeItem") = 0)
                      => ItemsAfter[c.index][c.field] = c.value]_vars

\* ------------------------------------------------------------ the receipt store
\* the receipts, updates and filters the store's callers pass
StoreReceipts == {[id |-> i, storeName |-> n] : i \in {1, 2}, n \in {"Cafe X", "Fuel Z"}}
StoreUpdates == {[storeName |-> "Cafe Y"], [storeName |-> "Cafe Y", totalAmount |-> 12]}
StoreIds == {1, 2, 3}
StoreFilters == {<<>>, [category |-> "Groceries"]}

\* { ...r, ...updates }
Merge(r, updates) ==
    [f \in DOMAIN r \cup DOMAIN updates |->
        IF f \in DOMAIN updates THEN updates[f] ELSE r[f]]

\* [receipt, ...receipts] turned around: [...receipts, receipt]
MutPrepend(receipt, receipts) == Append(receipts, receipt)

\* [receipt, ...receipts]
Prepend(receipt, receipts) == <<receipt>> \o receipts

\* receipts.map(r => r.id === id ? { ...r, ...updates } : r)
MapUpdate(receipts, id, updates) ==
    [k \in DOMAIN receipts |->
        IF receipts[k].id = id THEN Merge(receipts[k], updates) ELSE receipts[k]]

\* receipts.filter(r => r.id !== id)
FilterId(receipts, id) == SelectSeq(receipts, LAMBDA r : r.id # id)

\* a call of the store changes nothing outside the store
StoreFrame ==
    UNCHANGED <<uploadVars, invalidated, lastToast, serverReceipts, receiptsData,
                detailVars, requests, sent>>

AddReceipt(receipt) ==
    /\ receiptStore' = [receiptStore EXCEPT
                           !.receipts = Prepend(receipt, receiptStore.receipts)]
    /\ UNCHANGED storeVars
    /\ StoreFrame

UpdateReceipt(id, updates) ==
    /\ receiptStore' = [receiptStore EXCEPT
                           !.receipts = MapUpdate(receiptStore.receipts, id, updates)]
    /\ UNCHANGED storeVars
    /\ StoreFrame

DeleteReceipt(id) ==
    /\ receiptStore' = [receiptStore EXCEPT
                           !.receipts = FilterId(receiptStore.receipts, id)]
    /\ UNCHANGED storeVars
    /\ StoreFrame

SetSelectedReceipt(receipt) ==
    /\ receiptStore' = [receiptStore EXCEPT !.selectedReceipt = receipt]
    /\ UNCHANGED storeVars
    /\ StoreFrame

SetFilters(filters) ==
    /\ receiptStore' = [receiptStore EXCEPT !.filters = filters]
    /\ UNCHANGED storeVars
    /\ StoreFrame

ClearFilters ==
    /\ receiptStore' = [receiptStore EXCEPT !.filters = <<>>]
    /\ UNCHANGED storeVars
    /\ StoreFrame

SetUploadProgress(progress) ==
    /\ uploadProgress' = progress
    /\ UNCHANGED <<receiptStore, isUploading>>
    /\ StoreFrame

SetIsUploading(flag) ==
    /\ isUploading' = flag
    /\ UNCHANGED <<receiptStore, uploadProgress>>
    /\ StoreFrame

StoreNext ==
    \/ \E r \in StoreReceipts :
          Len(receiptStore.receipts) < MaxStoreReceipts /\ AddReceipt(r)
    \/ \E id \in StoreIds, u \in StoreUpdates : UpdateReceipt(id, u)
    \/ \E id \in StoreIds : DeleteReceipt(id)
    \/ \E r \in {Null, [id |-> 1, storeName |-> "Cafe X"]} : SetSelectedReceipt(r)
    \/ \E f \in StoreFilters : SetFilters(f)
    \/ ClearFilters
    \/ \E p \in {0, 50} : SetUploadProgress(p)
    \/ \E b \in BOOLEAN : SetIsUploading(b)

StoreSpec == Init /\ [][StoreNext]_vars

\* the receipts of the store before and after a step
Stored == receiptStore.receipts
StoredAfter == receiptStore'.receipts

\* what the three receipt operations leave alone
StoreRestSame ==
    /\ receiptStore'.selectedReceipt = receiptStore.selectedReceipt
    /\ receiptStore'.filters = receiptStore.filters
    /\ UNCHANGED <<isUploading, uploadProgress>>

\* updateReceipt and deleteReceipt of an id that no receipt has leave receipts
\* as they are
AbsentIdIsNoOp ==
    \A id \in StoreIds :
        (\A k \in DOMAIN Stored : Stored[k].id # id) =>
            /\ FilterId(Stored, id) = Stored
            /\ \A u \in StoreUpdates : MapUpdate(Stored, id, u) = Stored

\* C30: updateReceipt(id, updates) keeps the length and the order of receipts
\* and changes only the receipts with that id, which get the updates merged
\* in; deleteReceipt(id) removes exactly the receipts with that id, keeps the
\* others in order, and deleting again changes nothing; both change nothing
\* when no receipt has the id; addReceipt puts the new receipt first and keeps
\* the others behind it; none of the three changes selectedReceipt, filters,
\* isUploading or uploadProgress.
C30_StoreOperationsFrame ==
    [][/\ AbsentIdIsNoOp
       /\ StoredAfter # Stored =>
           /\ \A id \in StoreIds, u \in StoreUpdates :
                 \/ /\ Len(StoredAfter) = Len(Stored)
                    /\ \A k \in DOMAIN Stored :
                          /\ Stored[k].id # id => StoredAfter[k] = Stored[k]
                          /\ Stored[k].id = id =>
                                /\ DOMAIN StoredAfter[k] = DOMAIN Stored[k] \cup DOMAIN u
                                /\ \A f \in DOMAIN u : StoredAfter[k][f] = u[f]
                                /\ \A f \in DOMAIN Stored[k] \ DOMAIN u :
                                      StoredAfter[k][f] = Stored[k][f]
                    /\ StoreRestSame
                 \/ ~UpdateReceipt(id, u)
           /\ \A id \in StoreIds :
                 \/ /\ \A k \in DOMAIN StoredAfter : StoredAfter[k].id # id
                    /\ Len(StoredAfter) =
                          Len(Stored)
                          - Cardinality({k \in DOMAIN Stored : Stored[k].id = id})
                    /\ StoredAfter = SelectSeq(Stored, LAMBDA r : r.id # id)
                    /\ FilterId(StoredAfter, id) = StoredAfter
                    /\ StoreRestSame
                 \/ ~DeleteReceipt(id)
           /\ \A r \in StoreReceipts :
                 \/ /\ Len(StoredAfter) = Len(Stored) + 1
                    /\ StoredAfter[1] = r
                    /\ \A k \in DOMAIN Stored : StoredAfter[k + 1] = Stored[k]
                    /\ StoreRestSame
                 \/ ~AddReceipt(r)]_vars

\* a receipt was added in front of another, one was updated, and the store
\* holds a selection, filters and an upload in progress
C30_Witness ==
    /\ Len(Stored) = 2
    /\ Stored[1] = [id |-> 2, storeName |-> "Fuel Z"]
    /\ Stored[2] = [id |-> 1, storeName |-> "Cafe Y", totalAmount |-> 12]
    /\ receiptStore.selectedReceipt # Null
    /\ receiptStore.filters # <<>>
    /\ isUploading /\ uploadProgress = 50
====
